---- MODULE Spec2Model ----
(***************************************************************************)
(* Doc2Sys client scripts: the form handlers of the Doc2Sys DocTypes, the  *)
(* web-form glue and the schema constraints, as state machines.            *)
(*                                                                         *)
(* Each form is a group of variables with its own actions and its own      *)
(* specification (SpecRow, SpecSettings, ...); a group's actions leave the *)
(* other groups unchanged.                                                 *)
(***************************************************************************)
EXTENDS Integers, Sequences, FiniteSets, TLC

VARIABLES
    \* -- integration row (Doc2Sys User Integration / Doc2Sys Integration Settings)
    rowDoctype,     \* the DocType whose handler is registered for the row
    row,            \* the row's fields: fieldname -> value ("" is the empty string)
    rowEvent,       \* the field whose change handler ran last ("none" at load)
    \* -- Doc2Sys User Settings (records of the DocType, and the desk form)
    settingsRecs,   \* the existing records, in creation order: each one's user
    saveResult,     \* outcome of the last insert/update: "none", "saved", "rejected"
    lmCall,         \* the language-model method whose call is outstanding, or "none"
    lmMethod,       \* the method whose callback ran last, or "none"
    lmResp,         \* the response that callback received
    lmOut,          \* what that callback displayed: alert, dialog, refresh
    \* -- Doc2Sys Integration Log form
    logStatus,      \* frm.doc.status of the log on the form
    logButton,      \* whether the 'Retry Integration' button is on the form
    logCalls,       \* number of retry_integration calls outstanding
    logResp,        \* the response the last retry callback received
    logOut,         \* what that callback did: alert shown, or exception thrown
    \* -- Doc2Sys Item form
    itemDoc,        \* frm.doc: __islocal, single_file, status, text_content, __unsaved
    itemButtons,    \* labels of the custom buttons the last refresh added
    fileAtRefresh,  \* frm.doc.single_file as the last refresh saw it
    frozen,         \* frappe.dom.freeze_count: the overlay is up while > 0
    itemCalls,      \* outstanding remote calls: call -> how many
    itemTimers,     \* setTimeout callbacks not yet run (update_integration_status)
    panel,          \* integration_status_html: state, statuses rendered, items
    itemOut,        \* the last handler that ran ("ui" for a click on an Actions
                    \* button, a save or a field change) and its alert
    \* -- the integration web form
    webVersion,     \* which revision of the web-form script the page runs
    webReady,       \* addTestButton has added the buttons to the page
    webForm,        \* the form's values: integration_type, credentials filled
    testBtn,        \* #test-integration-button: disabled, label
    testCalls,      \* test_integration_user calls outstanding
    testResp,       \* the response the last test callback received
    testBox,        \* #integration-test-result: visible, alert classes
    qbBtn,          \* #connect-quickbooks-button: disabled, label
    qbShown,        \* #quickbooks-auth-container is displayed
    toggleTimer,    \* the 500 ms timer of the first toggleQuickBooksButton is pending
    qbCalls,        \* auth-URL calls outstanding
    qbBox,          \* #quickbooks-auth-result: visible, alert classes
    popupOpen,      \* the open 'QuickBooksAuth' window, 0 if none is open
    popupCount,     \* windows opened so far (window k exists iff k <= popupCount)
    polls,          \* windows an active checkAuthInterval polls
    webEvent,       \* the last handler that ran on the page
    \* -- a batch of create_doc2sys_items_from_files (list view, web list)
    batchScript,    \* the script the list runs
    file_docs,      \* the files of the batch (<<>>: no batch has started)
    batchIndex,     \* index of the last process_next_file(index)
    processed,      \* the counter 'processed'
    batchCalls,     \* create_item_from_file calls outstanding
    batchIssued,    \* the files a create call was issued for, in order
    batchCallbacks, \* callbacks of the batch that have run
    batchCreated,   \* Items the server has created for the batch
    batchDialog,    \* the progress dialog is shown
    batchTimer,     \* the 1 s timer of the completion is pending
    batchDone       \* the completion: alert shown (its N), list refreshed

rowVars == <<rowDoctype, row, rowEvent>>
settingsVars == <<settingsRecs, saveResult, lmCall, lmMethod, lmResp, lmOut>>
logVars == <<logStatus, logButton, logCalls, logResp, logOut>>
itemVars == <<itemDoc, itemButtons, fileAtRefresh, frozen, itemCalls, itemTimers,
              panel, itemOut>>
webVars == <<webVersion, webReady, webForm, testBtn, testCalls, testResp, testBox,
             qbBtn, qbShown, toggleTimer, qbCalls, qbBox, popupOpen, popupCount, polls,
             webEvent>>

batchVars == <<batchScript, file_docs, batchIndex, processed, batchCalls, batchIssued,
               batchCallbacks, batchCreated, batchDialog, batchTimer, batchDone>>

vars == <<rowVars, settingsVars, logVars, itemVars, webVars, batchVars>>

\* What the actions of one form leave alone: the other forms.
notRow == <<settingsVars, logVars, itemVars, webVars, batchVars>>
notSettings == <<rowVars, logVars, itemVars, webVars, batchVars>>
notLog == <<rowVars, settingsVars, itemVars, webVars, batchVars>>
notItem == <<rowVars, settingsVars, logVars, webVars, batchVars>>
notWeb == <<rowVars, settingsVars, logVars, itemVars, batchVars>>
notBatch == <<rowVars, settingsVars, logVars, itemVars, webVars>>

(***************************************************************************)
(* Integration row                                                         *)
(***************************************************************************)

\* Select options of integration_type: the schema's options plus the
\* 'QuickBooks' value its depends_on expressions still test.
IntegrationTypes == {"", "ERPNext", "QuickBooks"}

\* A value a user (or the server's OAuth callback) can put into a Data,
\* Password or Text field.
EnteredValues == {"x"}

FieldValues == {""} \cup EnteredValues

\* The credential fields of the schema that hold secrets or tokens.
SensitiveFields ==
    {"api_key", "api_secret", "client_id", "client_secret",
     "access_token", "refresh_token"}

\* Every value-carrying field of the integration section, integration_type apart.
RowFields ==
    SensitiveFields \cup {"base_url", "realm_id", "field_mapping"}

RowDoctypes == {"Doc2Sys User Integration", "Doc2Sys Integration Settings"}

\* frappe.model.set_value / frm.set_value: store one field of the row.
set_value(r, fieldname, value) == [r EXCEPT ![fieldname] = value]

\* frappe.ui.form.on('Doc2Sys User Integration', {integration_type: ...})
UserIntegration_integration_type(r) ==
    LET r1 == set_value(r, "api_key", "")
        r2 == set_value(r1, "api_secret", "")
        r3 == set_value(r2, "access_token", "")
        r4 == set_value(r3, "refresh_token", "")
        r5 == set_value(r4, "base_url", "")
        r6 == set_value(r5, "realm_id", "")
    IN  r6

\* frappe.ui.form.on('Doc2Sys Integration Settings', {integration_type: ...})
IntegrationSettings_integration_type(r) ==
    LET r1 == set_value(r, "api_key", "")
        r2 == set_value(r1, "api_secret", "")
        r3 == set_value(r2, "access_token", "")
        r4 == set_value(r3, "refresh_token", "")
        r5 == set_value(r4, "base_url", "")
        r6 == set_value(r5, "realm_id", "")
        r7 == set_value(r6, "field_mapping", "")
    IN  r7

\* The integration_type handler registered for the row's DocType.
integration_type_handler(dt, r) ==
    IF dt = "Doc2Sys User Integration"
    THEN UserIntegration_integration_type(r)
    ELSE IntegrationSettings_integration_type(r)

EmptyRow == [f \in RowFields \cup {"integration_type"} |-> ""]

InitRow ==
    /\ rowDoctype \in RowDoctypes
    /\ row = EmptyRow
    /\ rowEvent = "none"

\* The user types into (or the server fills) one credential field; none of
\* these fields has a change handler.
EditRowField(f, v) ==
    /\ row[f] # v
    /\ row' = set_value(row, f, v)
    /\ rowEvent' = f
    /\ UNCHANGED <<rowDoctype, notRow>>

\* The user picks another integration type: the value is stored, then the
\* integration_type handler runs.
ChangeIntegrationType(t) ==
    /\ row.integration_type # t
    /\ row' = integration_type_handler(rowDoctype, set_value(row, "integration_type", t))
    /\ rowEvent' = "integration_type"
    /\ UNCHANGED <<rowDoctype, notRow>>

NextRow ==
    \/ \E f \in RowFields, v \in FieldValues : EditRowField(f, v)
    \/ \E t \in IntegrationTypes : ChangeIntegrationType(t)

(***************************************************************************)
(* Doc2Sys User Settings: the user field of the schema                     *)
(***************************************************************************)

MaxSettingsRecs == 2

Users == {"u1", "u2", "u3"}

\* "reqd": 1 and "unique": 1 of the user field.
user_reqd == 1
user_unique == 1

\* Whether the host accepts a save of record i (0 for a record being
\* inserted) with user u: a required field must be non-empty, a unique
\* field's value must not be held by another record.
ValidUserUniqueOff(recs, i, u) ==
    user_reqd = 1 => u # ""

ValidUser(recs, i, u) ==
    /\ user_reqd = 1 => u # ""
    /\ user_unique = 1 => \A j \in 1..Len(recs) : j # i => recs[j] # u

InitRecords ==
    /\ settingsRecs = <<>>
    /\ saveResult = "none"

\* A new Doc2Sys User Settings record is submitted with user u.
InsertSettings(u) ==
    /\ Len(settingsRecs) < MaxSettingsRecs
    /\ IF ValidUser(settingsRecs, 0, u)
       THEN settingsRecs' = Append(settingsRecs, u) /\ saveResult' = "saved"
       ELSE settingsRecs' = settingsRecs /\ saveResult' = "rejected"
    /\ UNCHANGED <<notSettings, lmCall, lmMethod, lmResp, lmOut>>

\* The user of the existing record i is changed to u and the record saved.
UpdateSettings(i, u) ==
    /\ i \in 1..Len(settingsRecs)
    /\ IF ValidUser(settingsRecs, i, u)
       THEN settingsRecs' = [settingsRecs EXCEPT ![i] = u] /\ saveResult' = "saved"
       ELSE settingsRecs' = settingsRecs /\ saveResult' = "rejected"
    /\ UNCHANGED <<notSettings, lmCall, lmMethod, lmResp, lmOut>>

(***************************************************************************)
(* Doc2Sys User Settings form: Download Language Models, Delete Unused     *)
(* Models                                                                  *)
(***************************************************************************)

MaxResults == 2

LanguageCodes == {"en", "el"}

LmMethods == {"download_language_models", "delete_not_enabled_language_models"}

\* One entry of r.message.results.
ResultEntries == [language_code : LanguageCodes, success : BOOLEAN]

ResultLists == UNION {[1..n -> ResultEntries] : n \in 0..MaxResults}

\* r.message: absent; {success: false}; {success: true} without results;
\* {success: true, results: [...]}.
NoMessage == [present |-> FALSE, success |-> FALSE, has_results |-> FALSE, results |-> <<>>]

LmResponses ==
    {NoMessage}
    \cup {[present |-> TRUE, success |-> s, has_results |-> FALSE, results |-> <<>>] :
            s \in BOOLEAN}
    \cup {[present |-> TRUE, success |-> TRUE, has_results |-> TRUE, results |-> rs] :
            rs \in ResultLists}

NoAlert == [text |-> "none", successes |-> 0, failures |-> 0, indicator |-> "none"]
NoDialog == [shown |-> FALSE, rows |-> <<>>, indicator |-> "none"]
NothingShown == [alert |-> NoAlert, dialog |-> NoDialog, refreshed |-> FALSE]

\* results.filter(res => res.success).length
RECURSIVE CountSuccess(_)
CountSuccess(results) ==
    IF results = <<>> THEN 0
    ELSE (IF Head(results).success THEN 1 ELSE 0) + CountSuccess(Tail(results))

\* results.forEach(result => details += <tr>...</tr>)
DetailRows(results) ==
    [i \in 1..Len(results) |->
        [language_code |-> results[i].language_code,
         status |-> IF results[i].success THEN "Success" ELSE "Failed"]]

\* failures > 0 ? 'orange' : 'green'
FailureIndicatorAlwaysGreen(failures) == "green"

FailureIndicator(failures) == IF failures > 0 THEN "orange" ELSE "green"

\* callback of download_language_models
DownloadCallback(msg) ==
    IF msg.present /\ msg.success
    THEN LET results == IF msg.has_results THEN msg.results ELSE <<>>
             successes == CountSuccess(results)
             failures == Len(results) - successes
         IN  [alert |-> [text |-> "Downloaded", successes |-> successes,
                         failures |-> failures,
                         indicator |-> FailureIndicator(failures)],
              dialog |-> IF Len(results) > 0
                         THEN [shown |-> TRUE, rows |-> DetailRows(results),
                               indicator |-> FailureIndicator(failures)]
                         ELSE NoDialog,
              refreshed |-> TRUE]
    ELSE NothingShown

\* callback of delete_not_enabled_language_models
DeleteCallback(msg) ==
    IF msg.present /\ msg.success
    THEN LET results == IF msg.has_results THEN msg.results ELSE <<>>
             successes == CountSuccess(results)
             failures == Len(results) - successes
         IN  IF Len(results) = 0
             THEN [alert |-> [text |-> "No unused language models to delete",
                              successes |-> 0, failures |-> 0, indicator |-> "blue"],
                   dialog |-> NoDialog,
                   refreshed |-> TRUE]
             ELSE [alert |-> [text |-> "Deleted", successes |-> successes,
                              failures |-> failures,
                              indicator |-> FailureIndicator(failures)],
                   dialog |-> [shown |-> TRUE, rows |-> DetailRows(results),
                               indicator |-> FailureIndicator(failures)],
                   refreshed |-> TRUE]
    ELSE NothingShown

InitLanguageModels ==
    /\ lmCall = "none"
    /\ lmMethod = "none"
    /\ lmResp = NoMessage
    /\ lmOut = NothingShown

\* Click on the button and 'Yes' in frappe.confirm: frm.call with freeze: true
\* (the frozen page takes no further click until the call ends).
ClickLanguageModels(m) ==
    /\ lmCall = "none"
    /\ lmCall' = m
    /\ lmMethod' = "none"
    /\ lmResp' = NoMessage
    /\ lmOut' = NothingShown
    /\ UNCHANGED <<notSettings, settingsRecs, saveResult>>

\* The server answers: the callback runs with r.message = msg.
LanguageModelsResponse(msg) ==
    /\ lmCall # "none"
    /\ lmCall' = "none"
    /\ lmMethod' = lmCall
    /\ lmResp' = msg
    /\ lmOut' = IF lmCall = "download_language_models"
                THEN DownloadCallback(msg)
                ELSE DeleteCallback(msg)
    /\ UNCHANGED <<notSettings, settingsRecs, saveResult>>

\* The call fails: frm.call is given no error handler.
LanguageModelsError ==
    /\ lmCall # "none"
    /\ lmCall' = "none"
    /\ UNCHANGED <<notSettings, settingsRecs, saveResult, lmMethod, lmResp, lmOut>>

InitSettings == InitRecords /\ InitLanguageModels

NextSettings ==
    \/ \E u \in Users \cup {""} : InsertSettings(u)
    \/ \E i \in 1..MaxSettingsRecs, u \in Users \cup {""} : UpdateSettings(i, u)
    \/ \E m \in LmMethods : ClickLanguageModels(m)
    \/ \E msg \in LmResponses : LanguageModelsResponse(msg)
    \/ LanguageModelsError

(***************************************************************************)
(* Doc2Sys Integration Log form                                            *)
(***************************************************************************)

MaxLogCalls == 1

\* Outcomes an Integration Log records.
LogStatuses == {"success", "error", "warning"}

\* r of the retry_integration callback: r.message absent, or an object with
\* a status and a message ("" stands for a missing or empty message).
RetryResponses ==
    [present : {TRUE}, status : {"success", "error"}, message : {"", "m"}]
    \cup {[present |-> FALSE, status |-> "", message |-> ""]}

NoRetryResponse == [present |-> FALSE, status |-> "", message |-> ""]

NoLogOut == [ran |-> FALSE, threw |-> FALSE, indicator |-> "none", text |-> "none"]

\* r.message.message || 'Unknown error'
MessageOrUnknown(message) == IF message # "" THEN message ELSE "Unknown error"

\* The callback of retry_integration on the log form. Reading
\* r.message.message of an absent r.message throws a TypeError before
\* frappe.show_alert is reached.
LogRetryCallback(r) ==
    IF r.present /\ r.status = "success"
    THEN [ran |-> TRUE, threw |-> FALSE, indicator |-> "green",
          text |-> "Integration retried successfully"]
    ELSE IF ~r.present
         THEN [ran |-> TRUE, threw |-> TRUE, indicator |-> "none", text |-> "none"]
         ELSE [ran |-> TRUE, threw |-> FALSE, indicator |-> "red",
               text |-> MessageOrUnknown(r.message)]

\* refresh of the log form: the host drops the custom buttons, the handler
\* adds 'Retry Integration' if frm.doc.status === 'error'.
LogRetryButtonAlways(status) == TRUE

LogRetryButton(status) == status = "error"

\* The form is open on a log: the host has read it and fired refresh.
InitLog ==
    /\ logStatus \in LogStatuses
    /\ logButton = LogRetryButton(logStatus)
    /\ logCalls = 0
    /\ logResp = NoRetryResponse
    /\ logOut = NoLogOut

\* The form is loaded again: the host reads the log, whose status is the
\* server's, and fires refresh.
LogRefresh ==
    /\ \E st \in LogStatuses :
        /\ logStatus' = st
        /\ logButton' = LogRetryButton(st)
    /\ UNCHANGED <<notLog, logCalls, logResp, logOut>>

\* Click on 'Retry Integration' and 'Yes' in frappe.confirm.
ClickRetryIntegration ==
    /\ logButton
    /\ logCalls < MaxLogCalls
    /\ logCalls' = logCalls + 1
    /\ logResp' = NoRetryResponse
    /\ logOut' = NoLogOut
    /\ UNCHANGED <<notLog, logStatus, logButton>>

\* The server answers. On success the callback ends with frm.reload_doc():
\* the log is read again (its status is the server's) and the form refreshed.
LogRetryResponse(r) ==
    /\ logCalls > 0
    /\ logCalls' = logCalls - 1
    /\ logResp' = r
    /\ logOut' = LogRetryCallback(r)
    /\ IF r.present /\ r.status = "success"
       THEN \E st \in LogStatuses :
                /\ logStatus' = st
                /\ logButton' = LogRetryButton(st)
       ELSE UNCHANGED <<logStatus, logButton>>
    /\ UNCHANGED notLog

\* The call fails: frm.call is given no error handler.
LogRetryError ==
    /\ logCalls > 0
    /\ logCalls' = logCalls - 1
    /\ UNCHANGED <<notLog, logStatus, logButton, logResp, logOut>>

NextLog ==
    \/ LogRefresh
    \/ ClickRetryIntegration
    \/ \E r \in RetryResponses : LogRetryResponse(r)
    \/ LogRetryError

(***************************************************************************)
(* Doc2Sys Item form                                                       *)
(***************************************************************************)

MaxItemCalls == 2
MaxTimers == 1

\* Lifecycle status of an Item.
ItemStatuses == {"Uploaded", "Processed"}

\* The doc-method buttons of the Actions group: method -> label.
ActionMethods ==
    {"extract_text_only", "classify_document_only", "extract_data_only",
     "extract_data_azure", "process_all", "reset_usage_metrics"}

ActionLabel(m) ==
    CASE m = "extract_text_only" -> "Extract Text Only"
      [] m = "classify_document_only" -> "Classify Document"
      [] m = "extract_data_only" -> "Extract Data"
      [] m = "extract_data_azure" -> "Extract Data From Azure"
      [] m = "process_all" -> "Process All Steps"
      [] m = "reset_usage_metrics" -> "Reset Usage Metrics"

ActionDone(m) ==
    CASE m = "extract_text_only" -> "Text extraction completed"
      [] m = "classify_document_only" -> "Document classification completed"
      [] m = "extract_data_only" -> "Data extraction completed"
      [] m = "extract_data_azure" -> "Data extraction completed"
      [] m = "process_all" -> "Document processing completed"
      [] m = "reset_usage_metrics" -> "Usage metrics reset successfully"

ExtractionMethods == ActionMethods \ {"reset_usage_metrics"}

ExtractionLabels == {ActionLabel(m) : m \in ExtractionMethods}

ActionButtons == {ActionLabel(m) : m \in ActionMethods} \cup {""}

LogNames == {"LOG-1", "LOG-2"}

\* Remote calls the form issues: <<method, log_name argument or "">>.
ItemCallKinds ==
    {<<m, "">> : m \in ActionMethods \cup
                       {"get_integration_status", "trigger_integrations_on_update",
                        "save"}}
    \cup {<<m, l>> : m \in {"frappe.client.get", "retry_integration"}, l \in LogNames}

NoCalls == [c \in ItemCallKinds |-> 0]

RECURSIVE SumCalls(_, _)
SumCalls(calls, kinds) ==
    IF kinds = {} THEN 0
    ELSE LET c == CHOOSE x \in kinds : TRUE
         IN  calls[c] + SumCalls(calls, kinds \ {c})

Outstanding(calls) == SumCalls(calls, ItemCallKinds)

AddCall(calls, c) == [calls EXCEPT ![c] = @ + 1]
DropCall(calls, c) == [calls EXCEPT ![c] = @ - 1]

\* frappe.dom.freeze / frappe.dom.unfreeze
FreezeTwice(n) == n + 2

Freeze(n) == n + 1

UnfreezeNever(n) == n

Unfreeze(n) == IF n = 0 THEN 0 ELSE n - 1

\* One entry of the list get_integration_status returns ("" is a missing
\* status or log_name; "queued" stands for any other status value).
StatusEntries ==
    [status : {"success", "error", "warning", "queued", ""}, log_name : {""} \cup LogNames]

Entry(status, log_name) == [status |-> status, log_name |-> log_name]

\* The lists get_integration_status answers with: none, every single entry,
\* and pairs that mix failed entries with others.
StatusLists ==
    {<<>>}
    \cup {<<e>> : e \in StatusEntries}
    \cup {<<Entry("error", "LOG-1"), Entry("error", "LOG-2")>>,
          <<Entry("success", "LOG-1"), Entry("error", "LOG-2")>>,
          <<Entry("error", ""), Entry("warning", "LOG-1")>>,
          <<Entry("", ""), Entry("queued", "LOG-2")>>}

\* The branch of render_integration_status that picks class and text.
IndicatorClassWarningGray(status) ==
    IF status = "success" THEN "green"
    ELSE IF status = "error" THEN "red"
    ELSE "gray"

IndicatorClass(status) ==
    IF status = "success" THEN "green"
    ELSE IF status = "error" THEN "red"
    ELSE IF status = "warning" THEN "orange"
    ELSE "gray"

StatusText(status) ==
    IF status = "success" THEN "Success"
    ELSE IF status = "error" THEN "Failed"
    ELSE IF status = "warning" THEN "Warning"
    ELSE "Pending"

\* if (status.status === 'error' && status.log_name)
HasRetryAnyStatus(e) == e.log_name # ""

HasRetry(e) == e.status = "error" /\ e.log_name # ""

\* The items render_integration_status writes into the wrapper, one per
\* status entry: class, text, and the data-log of its Retry button ("" when
\* the item has no Retry button).
RenderItems(statuses) ==
    [i \in 1..Len(statuses) |->
        [indicator_class |-> IndicatorClass(statuses[i].status),
         status_text |-> StatusText(statuses[i].status),
         retry |-> HasRetry(statuses[i]),
         data_log |-> IF HasRetry(statuses[i]) THEN statuses[i].log_name ELSE ""]]

PanelInitial == [state |-> "initial", statuses |-> <<>>, items |-> <<>>]
PanelLoading == [state |-> "loading", statuses |-> <<>>, items |-> <<>>]

render_integration_status(statuses) ==
    [state |-> IF Len(statuses) = 0 THEN "none_processed" ELSE "rendered",
     statuses |-> statuses,
     items |-> RenderItems(statuses)]

\* The custom buttons refresh adds for a document.
UploadButtonAlsoNew(doc) ==
    IF doc.single_file = "" THEN {"Upload File"} ELSE {}

UploadButton(doc) ==
    IF ~doc.islocal /\ doc.single_file = "" THEN {"Upload File"} ELSE {}

ProcessingButtons(doc) ==
    IF doc.single_file # "" THEN ActionButtons ELSE {}

IntegrationButtonsAlways(doc) == {"Refresh Status", "Trigger Integrations"}

IntegrationButtons(doc) ==
    IF ~doc.islocal THEN {"Refresh Status", "Trigger Integrations"} ELSE {}

RefreshButtons(doc) ==
    UploadButton(doc) \cup ProcessingButtons(doc) \cup IntegrationButtons(doc)

\* update_integration_status(frm): nothing for an unsaved document; else
\* the loading text and one get_integration_status call.
StatusCallIssuedAlways(doc) == TRUE

StatusCallIssued(doc) == ~doc.islocal

\* What a handler leaves behind: its name, the alert it showed, and (for
\* the callbacks of the doc-method calls) the host calls it made, in order.
HandlerCalls(name, indicator, text, order) ==
    [handler |-> name, alert |-> indicator, text |-> text, order |-> order]

Handler(name) == HandlerCalls(name, "none", "none", <<>>)

HandlerAlert(name, indicator, text) == HandlerCalls(name, indicator, text, <<>>)

\* The statements of the callback of a doc-method call, and of its error
\* handler.
ActionCallbackOrder(hasMessage) ==
    IF hasMessage THEN <<"unfreeze", "show_alert", "refresh">> ELSE <<"unfreeze">>

ActionErrorOrder == <<"unfreeze">>

\* A click reaches a button only if refresh added it and the freeze overlay
\* is down.
Clickable(label) == label \in itemButtons /\ frozen = 0

ItemDocs ==
    {d \in [islocal : BOOLEAN, single_file : {"", "/files/a.pdf"},
            status : ItemStatuses, text_content : {"", "text"}, unsaved : BOOLEAN] :
        \* a document not yet saved has gone through no processing
        d.islocal => (d.status = "Uploaded" /\ d.text_content = "" /\ d.unsaved)}

\* The form opens on a new document or on a stored one; the host then
\* fires refresh.
InitItem ==
    /\ itemDoc \in {d \in ItemDocs : d.islocal => d.single_file = ""}
    /\ itemDoc.islocal \/ ~itemDoc.unsaved
    /\ itemButtons = {}
    /\ fileAtRefresh = ""
    /\ frozen = 0
    /\ itemCalls = NoCalls
    /\ itemTimers = 0
    /\ panel = PanelInitial
    /\ itemOut = Handler("none")

GIS == <<"get_integration_status", "">>
TRIGGER == <<"trigger_integrations_on_update", "">>
SAVE == <<"save", "">>

\* Calls whose callback may schedule a setTimeout(update_integration_status).
TimerSources(calls) ==
    calls[TRIGGER]
    + SumCalls(calls, {<<m, l>> : m \in {"frappe.client.get", "retry_integration"},
                                   l \in LogNames})

\* What the server may have done to the document when a doc-method call or
\* a save returns: text extracted, status advanced.
ServerProcessed(doc) ==
    {[doc EXCEPT !.status = st, !.text_content = t] :
        st \in {doc.status, "Processed"}, t \in {doc.text_content, "text"}}

\* The refresh handler, on document doc with calls outstanding: the buttons,
\* and update_integration_status(frm) at its end.
RefreshEffect(doc, calls) ==
    /\ itemButtons' = RefreshButtons(doc)
    /\ fileAtRefresh' = doc.single_file
    /\ IF StatusCallIssued(doc)
       THEN panel' = PanelLoading /\ itemCalls' = AddCall(calls, GIS)
       ELSE panel' = panel /\ itemCalls' = calls

\* The host fires refresh (form load, reload).
ItemRefresh ==
    /\ frozen = 0
    /\ Outstanding(itemCalls) < MaxItemCalls
    /\ RefreshEffect(itemDoc, itemCalls)
    /\ itemOut' = Handler("refresh")
    /\ UNCHANGED <<notItem, itemDoc, frozen, itemTimers>>

\* Click on a button of the Actions group (for Reset Usage Metrics: and
\* 'Yes' in frappe.confirm): freeze, then frm.call.
ClickAction(m) ==
    /\ Clickable(ActionLabel(m))
    /\ Outstanding(itemCalls) < MaxItemCalls
    /\ frozen' = Freeze(frozen)
    /\ itemCalls' = AddCall(itemCalls, <<m, "">>)
    /\ itemOut' = Handler("ui")
    /\ UNCHANGED <<notItem, itemDoc, itemButtons, fileAtRefresh, itemTimers, panel>>

\* callback of a doc-method call, with r.message present or empty.
ActionResponse(m, hasMessage) ==
    /\ itemCalls[<<m, "">>] > 0
    /\ frozen' = Unfreeze(frozen)
    /\ \E doc \in ServerProcessed(itemDoc) :
        /\ itemDoc' = doc
        /\ IF hasMessage
           THEN /\ itemOut' = HandlerCalls("callback", "green", ActionDone(m),
                                           ActionCallbackOrder(TRUE))
                /\ RefreshEffect(doc, DropCall(itemCalls, <<m, "">>))
           ELSE /\ itemOut' = HandlerCalls("callback_empty", "none", "none",
                                           ActionCallbackOrder(FALSE))
                /\ itemCalls' = DropCall(itemCalls, <<m, "">>)
                /\ UNCHANGED <<itemButtons, fileAtRefresh, panel>>
    /\ UNCHANGED <<notItem, itemTimers>>

\* error of a doc-method call.
ActionError(m) ==
    /\ itemCalls[<<m, "">>] > 0
    /\ frozen' = Unfreeze(frozen)
    /\ itemCalls' = DropCall(itemCalls, <<m, "">>)
    /\ itemOut' = HandlerCalls("error", "none", "none", ActionErrorOrder)
    /\ UNCHANGED <<notItem, itemDoc, itemButtons, fileAtRefresh, itemTimers, panel>>

\* before_save
BeforeSaveFreezes(doc) ==
    doc.single_file # "" /\ (doc.unsaved \/ doc.text_content = "")

\* frm.save(): before_save runs, then the save request goes out.
SaveEffect(doc) ==
    /\ frozen' = IF BeforeSaveFreezes(doc) THEN Freeze(frozen) ELSE frozen
    /\ itemCalls' = AddCall(itemCalls, SAVE)

\* The user attaches a file in the form's Attach field, or clears it: the
\* single_file handler runs.
EditFile(v) ==
    /\ frozen = 0
    /\ itemDoc.single_file # v
    /\ itemDoc' = [itemDoc EXCEPT !.single_file = v, !.unsaved = TRUE]
    /\ itemOut' = IF v # ""
                  THEN HandlerAlert("ui", "blue", "File attached")
                  ELSE Handler("ui")
    /\ UNCHANGED <<notItem, itemButtons, fileAtRefresh, frozen, itemCalls, itemTimers,
                   panel>>

\* 'Upload File' and a finished upload: on_success sets single_file, saves
\* and shows the green alert.
ClickUploadFile ==
    /\ Clickable("Upload File")
    /\ Outstanding(itemCalls) < MaxItemCalls
    /\ LET doc == [itemDoc EXCEPT !.single_file = "/files/a.pdf", !.unsaved = TRUE]
       IN  itemDoc' = doc /\ SaveEffect(doc)
    /\ itemOut' = HandlerAlert("ui", "green", "File uploaded successfully")
    /\ UNCHANGED <<notItem, itemButtons, fileAtRefresh, itemTimers, panel>>

\* The user saves the form.
ClickSave ==
    /\ frozen = 0
    /\ itemDoc.unsaved
    /\ Outstanding(itemCalls) < MaxItemCalls
    /\ SaveEffect(itemDoc)
    /\ itemOut' = Handler("ui")
    /\ UNCHANGED <<notItem, itemDoc, itemButtons, fileAtRefresh, itemTimers, panel>>

\* The save succeeded: the stored document comes back, after_save runs,
\* the host refreshes the form.
SaveSucceeded ==
    /\ itemCalls[SAVE] > 0
    /\ \E doc \in ServerProcessed([itemDoc EXCEPT !.islocal = FALSE, !.unsaved = FALSE]) :
        /\ itemDoc' = doc
        /\ RefreshEffect(doc, DropCall(itemCalls, SAVE))
    /\ frozen' = Unfreeze(frozen)
    /\ itemOut' = Handler("after_save")
    /\ UNCHANGED <<notItem, itemTimers>>

\* The save was rejected or failed: after_save does not run.
SaveFailed ==
    /\ itemCalls[SAVE] > 0
    /\ itemCalls' = DropCall(itemCalls, SAVE)
    /\ itemOut' = Handler("save_failed")
    /\ UNCHANGED <<notItem, itemDoc, itemButtons, fileAtRefresh, frozen, itemTimers,
                   panel>>

\* update_integration_status(frm) called on its own.
UpdateStatusEffect ==
    IF StatusCallIssued(itemDoc)
    THEN panel' = PanelLoading /\ itemCalls' = AddCall(itemCalls, GIS)
    ELSE panel' = panel /\ itemCalls' = itemCalls

\* Click on 'Refresh Status'.
ClickRefreshStatus ==
    /\ Clickable("Refresh Status")
    /\ Outstanding(itemCalls) < MaxItemCalls
    /\ UpdateStatusEffect
    /\ itemOut' = HandlerAlert("refresh_status", "blue", "Integration status refreshed")
    /\ UNCHANGED <<notItem, itemDoc, itemButtons, fileAtRefresh, frozen, itemTimers>>

\* Click on 'Trigger Integrations'.
ClickTriggerIntegrations ==
    /\ Clickable("Trigger Integrations")
    /\ Outstanding(itemCalls) < MaxItemCalls
    /\ itemTimers + TimerSources(itemCalls) < MaxTimers
    /\ itemCalls' = AddCall(itemCalls, TRIGGER)
    /\ itemOut' = Handler("trigger_click")
    /\ UNCHANGED <<notItem, itemDoc, itemButtons, fileAtRefresh, frozen, itemTimers,
                   panel>>

\* setTimeout(function() { update_integration_status(frm); }, 3000) in the
\* callback of trigger_integrations_on_update.
TriggerCallbackTimersTwo(timers) == timers + 2

TriggerCallbackTimers(timers) == timers + 1

\* callback of trigger_integrations_on_update: alert, then a refresh of the
\* status in 3 seconds.
TriggerResponse ==
    /\ itemCalls[TRIGGER] > 0
    /\ itemCalls' = DropCall(itemCalls, TRIGGER)
    /\ itemTimers' = TriggerCallbackTimers(itemTimers)
    /\ itemOut' = HandlerAlert("trigger_callback", "green", "Integrations triggered")
    /\ UNCHANGED <<notItem, itemDoc, itemButtons, fileAtRefresh, frozen, panel>>

\* The trigger call fails: frappe.call is given no error handler.
TriggerError ==
    /\ itemCalls[TRIGGER] > 0
    /\ itemCalls' = DropCall(itemCalls, TRIGGER)
    /\ itemOut' = Handler("trigger_error")
    /\ UNCHANGED <<notItem, itemDoc, itemButtons, fileAtRefresh, frozen, itemTimers,
                   panel>>

\* A setTimeout callback runs: update_integration_status(frm).
TimerFires ==
    /\ itemTimers > 0
    /\ Outstanding(itemCalls) < MaxItemCalls
    /\ itemTimers' = itemTimers - 1
    /\ UpdateStatusEffect
    /\ itemOut' = Handler("timer")
    /\ UNCHANGED <<notItem, itemDoc, itemButtons, fileAtRefresh, frozen>>

\* get_integration_status resolves: .then(r => { if (r.message) render }).
\* An empty list is a message (an empty array is truthy).
StatusResponse(hasMessage, statuses) ==
    /\ itemCalls[GIS] > 0
    /\ itemCalls' = DropCall(itemCalls, GIS)
    /\ panel' = IF hasMessage THEN render_integration_status(statuses) ELSE panel
    /\ itemOut' = Handler("status_then")
    /\ UNCHANGED <<notItem, itemDoc, itemButtons, fileAtRefresh, frozen, itemTimers>>

\* get_integration_status rejects: there is no catch.
StatusError ==
    /\ itemCalls[GIS] > 0
    /\ itemCalls' = DropCall(itemCalls, GIS)
    /\ itemOut' = Handler("status_error")
    /\ UNCHANGED <<notItem, itemDoc, itemButtons, fileAtRefresh, frozen, itemTimers,
                   panel>>

\* Click on the Retry button of item i of the panel: frappe.client.get of
\* the log named by its data-log.
ClickRetry(i) ==
    /\ frozen = 0
    /\ i \in 1..Len(panel.items)
    /\ panel.items[i].retry
    /\ Outstanding(itemCalls) < MaxItemCalls
    /\ itemTimers + TimerSources(itemCalls) < MaxTimers
    /\ itemCalls' = AddCall(itemCalls, <<"frappe.client.get", panel.items[i].data_log>>)
    /\ itemOut' = Handler("retry_click")
    /\ UNCHANGED <<notItem, itemDoc, itemButtons, fileAtRefresh, frozen, itemTimers,
                   panel>>

\* callback of frappe.client.get: with a message, retry_integration is
\* called with the same log_name.
GetLogResponse(l, hasMessage) ==
    /\ itemCalls[<<"frappe.client.get", l>>] > 0
    /\ itemCalls' = IF hasMessage
                    THEN AddCall(DropCall(itemCalls, <<"frappe.client.get", l>>),
                                 <<"retry_integration", l>>)
                    ELSE DropCall(itemCalls, <<"frappe.client.get", l>>)
    /\ itemOut' = Handler(IF hasMessage THEN "get_callback" ELSE "get_callback_empty")
    /\ UNCHANGED <<notItem, itemDoc, itemButtons, fileAtRefresh, frozen, itemTimers,
                   panel>>

\* frappe.client.get or retry_integration fails: no error handler.
RetryChainError(m, l) ==
    /\ itemCalls[<<m, l>>] > 0
    /\ itemCalls' = DropCall(itemCalls, <<m, l>>)
    /\ itemOut' = Handler("retry_error")
    /\ UNCHANGED <<notItem, itemDoc, itemButtons, fileAtRefresh, frozen, itemTimers,
                   panel>>

\* result.message?.message || 'Failed to retry integration'
MessageOrFailed(r) ==
    IF r.present /\ r.message # "" THEN r.message ELSE "Failed to retry integration"

\* result.message && result.message.status === 'success'
RetrySucceededAnyMessage(r) == r.present

RetrySucceeded(r) == r.present /\ r.status = "success"

\* What the retry callback leaves behind: its alert and the response it got.
RetryOut(indicator, text, r) ==
    HandlerAlert("retry_callback", indicator, text) @@ [resp |-> r]

\* callback of retry_integration issued from the panel.
RetryResponse(l, r) ==
    /\ itemCalls[<<"retry_integration", l>>] > 0
    /\ itemCalls' = DropCall(itemCalls, <<"retry_integration", l>>)
    /\ IF RetrySucceeded(r)
       THEN /\ itemOut' = RetryOut("green", "Integration retried successfully", r)
            /\ itemTimers' = itemTimers + 1
       ELSE /\ itemOut' = RetryOut("red", MessageOrFailed(r), r)
            /\ itemTimers' = itemTimers
    /\ UNCHANGED <<notItem, itemDoc, itemButtons, fileAtRefresh, frozen, panel>>

\* Short answers to get_integration_status.
ShortStatusLists ==
    {<<>>, <<Entry("error", "LOG-1")>>, <<Entry("success", "LOG-1")>>}

\* The Item form, its status panel shown but the panel's retry chain left
\* to NextRetry.
NextItem ==
    \/ ItemRefresh
    \/ \E m \in ActionMethods : ClickAction(m)
    \/ \E m \in ActionMethods, hasMessage \in BOOLEAN : ActionResponse(m, hasMessage)
    \/ \E m \in ActionMethods : ActionError(m)
    \/ \E v \in {"", "/files/a.pdf"} : EditFile(v)
    \/ ClickUploadFile
    \/ ClickSave
    \/ SaveSucceeded
    \/ SaveFailed
    \/ ClickRefreshStatus
    \/ ClickTriggerIntegrations
    \/ TriggerResponse
    \/ TriggerError
    \/ TimerFires
    \/ \E hasMessage \in BOOLEAN, statuses \in ShortStatusLists :
            StatusResponse(hasMessage, statuses)
    \/ StatusError

(***************************************************************************)
(* Integration web form: Test Integration, Connect to QuickBooks           *)
(***************************************************************************)

MaxPopups == 2

\* The two revisions of the script that carry the QuickBooks button.
WebVersions == {"part_000", "part_001"}

Button(disabled, label) == [disabled |-> disabled, label |-> label]
Box(visible, classes) == [visible |-> visible, classes |-> classes]

removeClass(classes, c) == classes \ {c}
addClass(classes, c) == classes \cup {c}

\* r.message of test_integration_user: absent, or an object with a status.
TestResponses ==
    [present : {TRUE}, status : {"success", "error"}]
    \cup {[present |-> FALSE, status |-> ""]}

NoTestResponse == [present |-> FALSE, status |-> ""]

\* The buttons as addTestButton creates them and as the callbacks reset them.
TestButtonIdle == Button(FALSE, "Test Integration")
QbButtonIdle == Button(FALSE, "Connect to QuickBooks")

\* The form's values. frappe.web_form.get_values() returns them, or null
\* while a mandatory value is missing (complete = FALSE).
WebForms ==
    [integration_type : IntegrationTypes, has_credentials : BOOLEAN, complete : BOOLEAN]

\* The condition of toggleQuickBooksButton.
QbToggle(version, form) ==
    IF version = "part_000"
    THEN form.integration_type = "QuickBooks" /\ form.has_credentials
    ELSE form.integration_type = "QuickBooks"

\* toggleQuickBooksButton: reading a property of null values throws and
\* leaves the container as it is.
toggleQuickBooksButton(version, form, shown) ==
    IF form.complete THEN QbToggle(version, form) ELSE shown

\* The fields whose change event runs toggleQuickBooksButton.
ToggleListens(version, old, new) ==
    \/ old.integration_type # new.integration_type
    \/ version = "part_000" /\ old.has_credentials # new.has_credentials

\* The page right after a load: the script has not added its elements yet.
PageLoaded ==
    /\ webReady = FALSE
    /\ testBtn = TestButtonIdle
    /\ testCalls = 0
    /\ testResp = NoTestResponse
    /\ testBox = Box(FALSE, {})
    /\ qbBtn = QbButtonIdle
    /\ qbShown = FALSE
    /\ toggleTimer = FALSE
    /\ qbCalls = 0
    /\ qbBox = Box(FALSE, {})
    /\ polls = {}

InitWeb ==
    /\ webVersion \in WebVersions
    /\ webForm \in WebForms
    /\ PageLoaded
    /\ popupOpen = 0
    /\ popupCount = 0
    /\ webEvent = "none"

\* addTestButton (timer, mutation observer or after_load; later calls find
\* the container and return): both buttons enabled, both result boxes with
\* display: none, the click handlers, and the first toggleQuickBooksButton:
\* at once in part_000, where the container starts hidden; after 500 ms in
\* part_001, where it starts shown.
AddTestButton ==
    /\ ~webReady
    /\ webReady' = TRUE
    /\ qbShown' = IF webVersion = "part_000"
                  THEN toggleQuickBooksButton(webVersion, webForm, FALSE)
                  ELSE TRUE
    /\ toggleTimer' = (webVersion = "part_001")
    /\ webEvent' = "addTestButton"
    /\ UNCHANGED <<notWeb, webVersion, webForm, testBtn, testCalls, testResp, testBox,
                   qbBtn, qbCalls, qbBox, popupOpen, popupCount, polls>>

\* setTimeout(toggleQuickBooksButton, 500) of part_001
ToggleTimerFires ==
    /\ toggleTimer
    /\ toggleTimer' = FALSE
    /\ qbShown' = toggleQuickBooksButton(webVersion, webForm, qbShown)
    /\ webEvent' = "toggle"
    /\ UNCHANGED <<notWeb, webVersion, webReady, webForm, testBtn, testCalls, testResp,
                   testBox, qbBtn, qbCalls, qbBox, popupOpen, popupCount, polls>>

\* The user changes a value of the form; the change listener runs
\* toggleQuickBooksButton.
ChangeWebForm(form) ==
    /\ webReady
    /\ form # webForm
    /\ webForm' = form
    /\ qbShown' = IF ToggleListens(webVersion, webForm, form)
                  THEN toggleQuickBooksButton(webVersion, form, qbShown)
                  ELSE qbShown
    /\ webEvent' = "change"
    /\ UNCHANGED <<notWeb, webVersion, webReady, toggleTimer, testBtn, testCalls,
                   testResp, testBox, qbBtn, qbCalls, qbBox, popupOpen, popupCount,
                   polls>>

\* The state a click handler gives its button.
TestButtonBusyEnabled == Button(FALSE, "Testing...")

TestButtonBusy == Button(TRUE, "Testing...")

QbButtonBusy == Button(TRUE, "Connecting...")

\* Click on 'Test Integration': button disabled with the spinner, result box
\* hidden, then the call. With null form values, reading .user throws before
\* frappe.call and no call is issued.
ClickTest ==
    /\ webReady
    /\ ~testBtn.disabled
    /\ testBtn' = TestButtonBusy
    /\ testBox' = Box(FALSE, testBox.classes)
    /\ testCalls' = IF webForm.complete THEN testCalls + 1 ELSE testCalls
    /\ testResp' = NoTestResponse
    /\ webEvent' = IF webForm.complete THEN "test_click" ELSE "test_click_threw"
    /\ UNCHANGED <<notWeb, webVersion, webReady, webForm, qbBtn, qbShown, toggleTimer,
                   qbCalls, qbBox, popupOpen, popupCount, polls>>

\* The classes of the test result box after a response with a message.
TestBoxClassesKeepBoth(classes, status) ==
    IF status = "success"
    THEN addClass(classes, "alert-success")
    ELSE addClass(classes, "alert-danger")

TestBoxClasses(classes, status) ==
    IF status = "success"
    THEN addClass(removeClass(classes, "alert-danger"), "alert-success")
    ELSE addClass(removeClass(classes, "alert-success"), "alert-danger")

\* callback of test_integration_user
TestResponse(r) ==
    /\ testCalls > 0
    /\ testCalls' = testCalls - 1
    /\ testBtn' = TestButtonIdle
    /\ testResp' = r
    /\ testBox' = IF r.present
                  THEN Box(TRUE, TestBoxClasses(testBox.classes, r.status))
                  ELSE testBox
    /\ webEvent' = "test_callback"
    /\ UNCHANGED <<notWeb, webVersion, webReady, webForm, qbBtn, qbShown, toggleTimer,
                   qbCalls, qbBox, popupOpen, popupCount, polls>>

\* error of test_integration_user
TestError ==
    /\ testCalls > 0
    /\ testCalls' = testCalls - 1
    /\ testBtn' = TestButtonIdle
    /\ testResp' = NoTestResponse
    /\ testBox' = Box(TRUE, addClass(removeClass(testBox.classes, "alert-success"),
                                     "alert-danger"))
    /\ webEvent' = "test_error"
    /\ UNCHANGED <<notWeb, webVersion, webReady, webForm, qbBtn, qbShown, toggleTimer,
                   qbCalls, qbBox, popupOpen, popupCount, polls>>

\* Click on 'Connect to QuickBooks'. The call is get_quickbooks_auth_url, or
\* in part_001 get_quickbooks_auth_url_for_user when the values carry no
\* name; the callbacks of the two are the same.
ClickQuickBooks ==
    /\ webReady
    /\ qbShown
    /\ ~qbBtn.disabled
    /\ popupCount + qbCalls < MaxPopups
    /\ qbBtn' = QbButtonBusy
    /\ qbBox' = Box(FALSE, qbBox.classes)
    /\ qbCalls' = IF webForm.complete THEN qbCalls + 1 ELSE qbCalls
    /\ webEvent' = IF webForm.complete THEN "qb_click" ELSE "qb_click_threw"
    /\ UNCHANGED <<notWeb, webVersion, webReady, webForm, testBtn, testCalls, testResp,
                   testBox, qbShown, toggleTimer, popupOpen, popupCount, polls>>

\* callback of the auth-URL call. With r.message.success: window.open on the
\* name 'QuickBooksAuth' (the open window of that name, else a new one), the
\* info box, and a checkAuthInterval polling that window.
QuickBooksResponse(success) ==
    /\ qbCalls > 0
    /\ qbCalls' = qbCalls - 1
    /\ qbBtn' = QbButtonIdle
    /\ IF success
       THEN LET w == IF popupOpen # 0 THEN popupOpen ELSE popupCount + 1
            IN  /\ popupOpen' = w
                /\ popupCount' = IF popupOpen # 0 THEN popupCount ELSE popupCount + 1
                /\ polls' = polls \cup {w}
                /\ qbBox' = Box(TRUE, addClass(removeClass(qbBox.classes, "alert-danger"),
                                               "alert-info"))
                /\ webEvent' = "qb_callback_success"
       ELSE /\ qbBox' = Box(TRUE, addClass(removeClass(qbBox.classes, "alert-info"),
                                           "alert-danger"))
            /\ webEvent' = "qb_callback_failure"
            /\ UNCHANGED <<popupOpen, popupCount, polls>>
    /\ UNCHANGED <<notWeb, webVersion, webReady, webForm, testBtn, testCalls, testResp,
                   testBox, qbShown, toggleTimer>>

\* error of the auth-URL call
QuickBooksError ==
    /\ qbCalls > 0
    /\ qbCalls' = qbCalls - 1
    /\ qbBtn' = QbButtonIdle
    /\ qbBox' = Box(TRUE, addClass(removeClass(qbBox.classes, "alert-info"),
                                   "alert-danger"))
    /\ webEvent' = "qb_error"
    /\ UNCHANGED <<notWeb, webVersion, webReady, webForm, testBtn, testCalls, testResp,
                   testBox, qbShown, toggleTimer, popupOpen, popupCount, polls>>

\* The authorization window closes (the user, or the end of the OAuth flow).
ClosePopup ==
    /\ popupOpen # 0
    /\ popupOpen' = 0
    /\ webEvent' = "popup_closed"
    /\ UNCHANGED <<notWeb, webVersion, webReady, webForm, testBtn, testCalls, testResp,
                   testBox, qbBtn, qbShown, toggleTimer, qbCalls, qbBox, popupCount,
                   polls>>

\* authWindow.closed, as a tick of the interval polling window w reads it.
WindowClosedAlways(w) == TRUE

WindowClosed(w) == w # popupOpen

\* A tick of the checkAuthInterval polling window w. It does nothing while
\* the window is open; once it is closed: clearInterval and
\* window.location.reload(). The reload ends every call and timer of the
\* page and loads the page anew; the popup windows are not part of the page.
PollTick(w) ==
    /\ w \in polls
    /\ WindowClosed(w)
    /\ webReady' = FALSE
    /\ testBtn' = TestButtonIdle
    /\ testCalls' = 0
    /\ testResp' = NoTestResponse
    /\ testBox' = Box(FALSE, {})
    /\ qbBtn' = QbButtonIdle
    /\ qbShown' = FALSE
    /\ toggleTimer' = FALSE
    /\ qbCalls' = 0
    /\ qbBox' = Box(FALSE, {})
    /\ polls' = {}
    /\ webEvent' = "reload"
    /\ UNCHANGED <<notWeb, webVersion, webForm, popupOpen, popupCount>>

NextWeb ==
    \/ AddTestButton
    \/ ToggleTimerFires
    \/ \E form \in WebForms : ChangeWebForm(form)
    \/ ClickTest
    \/ \E r \in TestResponses : TestResponse(r)
    \/ TestError
    \/ ClickQuickBooks
    \/ \E success \in BOOLEAN : QuickBooksResponse(success)
    \/ QuickBooksError
    \/ ClosePopup
    \/ \E w \in 1..MaxPopups : PollTick(w)

IdleWeb ==
    /\ webVersion = "part_001"
    /\ webForm = [integration_type |-> "", has_credentials |-> FALSE, complete |-> TRUE]
    /\ PageLoaded
    /\ popupOpen = 0
    /\ popupCount = 0
    /\ webEvent = "none"

(***************************************************************************)
(* Upload of several files: create_doc2sys_items_from_files                *)
(***************************************************************************)

MaxFiles == 3

\* doc2sys_item_list.js (desk list view) and public/js/doc2sys.js (web list)
\* carry the same function; they differ in the list they refresh.
BatchScripts == {"doc2sys_item_list.js", "doc2sys.js"}

\* The File documents of an upload, by name.
FileNames == 1..MaxFiles

\* Arrays of distinct File documents.
FileArrays ==
    UNION {{a \in [1..n -> FileNames] : \A i, j \in 1..n : a[i] = a[j] => i = j} :
            n \in 0..MaxFiles}

\* What on_success hands over: one file document, or an array of them.
UploadedFiles ==
    [is_array : {FALSE}, files : {<<f>> : f \in FileNames}]
    \cup [is_array : {TRUE}, files : FileArrays]

\* if (!Array.isArray(file_docs)) file_docs = [file_docs]
AsArray(uploaded) == uploaded.files

NoCompletion == [shown |-> FALSE, created |-> 0, refreshed |-> "none"]

\* The list the completion refreshes.
RefreshedList(script) ==
    IF script = "doc2sys_item_list.js" THEN "listview" ELSE "frappe.web_form_list"

InitBatch ==
    /\ batchScript \in BatchScripts
    /\ file_docs = <<>>
    /\ batchIndex = 0
    /\ processed = 0
    /\ batchCalls = 0
    /\ batchIssued = <<>>
    /\ batchCallbacks = 0
    /\ batchCreated = 0
    /\ batchDialog = FALSE
    /\ batchTimer = FALSE
    /\ batchDone = NoCompletion

\* The index process_next_file hands on from the callback of file index.
SameIndex(index) == index

NextIndex(index) == index + 1

\* process_next_file(index) over files: past the end it starts the 1 s timer
\* of the completion, else it issues create_item_from_file for files[index]
\* (index counts from 0).
process_next_file(files, index, calls, issued) ==
    /\ batchIndex' = index
    /\ IF index >= Len(files)
       THEN /\ batchTimer' = TRUE
            /\ batchCalls' = calls
            /\ batchIssued' = issued
       ELSE /\ batchTimer' = batchTimer
            /\ batchCalls' = calls + 1
            /\ batchIssued' = Append(issued, files[index + 1])

\* on_success of the FileUploader: create_doc2sys_items_from_files. An
\* empty array returns at once; else the dialog is shown and
\* process_next_file(0) runs. One batch is followed at a time.
StartBatch(uploaded) ==
    /\ batchCalls = 0 /\ ~batchTimer /\ ~batchDialog
    /\ LET files == AsArray(uploaded)
       IN  IF Len(files) = 0
           THEN UNCHANGED batchVars
           ELSE /\ file_docs' = files
                /\ processed' = 0
                /\ batchCallbacks' = 0
                /\ batchCreated' = 0
                /\ batchDialog' = TRUE
                /\ batchDone' = NoCompletion
                /\ process_next_file(files, 0, 0, <<>>)
                /\ UNCHANGED batchScript
    /\ UNCHANGED notBatch

\* callback of create_item_from_file, the server having created the Item
\* or not: processed++, progress, process_next_file(index + 1).
CreateResponse(created) ==
    /\ batchCalls > 0
    /\ processed' = processed + 1
    /\ batchCallbacks' = batchCallbacks + 1
    /\ batchCreated' = IF created THEN batchCreated + 1 ELSE batchCreated
    /\ process_next_file(file_docs, NextIndex(batchIndex), batchCalls - 1, batchIssued)
    /\ UNCHANGED <<notBatch, batchScript, file_docs, batchDialog, batchDone>>

\* The call fails: frappe.call is given no error handler, the callback does
\* not run.
CreateError ==
    /\ batchCalls > 0
    /\ batchCalls' = batchCalls - 1
    /\ UNCHANGED <<notBatch, batchScript, file_docs, batchIndex, processed, batchIssued,
                   batchCallbacks, batchCreated, batchDialog, batchTimer, batchDone>>

\* The timer of the completion: dialog.hide(), the alert 'Created
\* ${processed} documents successfully', the refresh of the list.
BatchCompletes ==
    /\ batchTimer
    /\ batchTimer' = FALSE
    /\ batchDialog' = FALSE
    /\ batchDone' = [shown |-> TRUE, created |-> processed,
                     refreshed |-> RefreshedList(batchScript)]
    /\ UNCHANGED <<notBatch, batchScript, file_docs, batchIndex, processed, batchCalls,
                   batchIssued, batchCallbacks, batchCreated>>

NextBatch ==
    \/ \E uploaded \in UploadedFiles : StartBatch(uploaded)
    \/ \E created \in BOOLEAN : CreateResponse(created)
    \/ CreateError
    \/ BatchCompletes

IdleBatch ==
    /\ batchScript = "doc2sys_item_list.js"
    /\ file_docs = <<>>
    /\ batchIndex = 0
    /\ processed = 0
    /\ batchCalls = 0
    /\ batchIssued = <<>>
    /\ batchCallbacks = 0
    /\ batchCreated = 0
    /\ batchDialog = FALSE
    /\ batchTimer = FALSE
    /\ batchDone = NoCompletion

\* The retry controls alone: the status panel of the Item form with its
\* retry chain, and the Integration Log form.
NextRetry ==
    \/ ItemRefresh
    \/ ClickRefreshStatus
    \/ TimerFires
    \/ \E hasMessage \in BOOLEAN, statuses \in StatusLists :
            StatusResponse(hasMessage, statuses)
    \/ StatusError
    \/ \E i \in DOMAIN panel.items : ClickRetry(i)
    \/ \E l \in LogNames, hasMessage \in BOOLEAN : GetLogResponse(l, hasMessage)
    \/ \E m \in {"frappe.client.get", "retry_integration"}, l \in LogNames :
            RetryChainError(m, l)
    \/ \E l \in LogNames, r \in RetryResponses : RetryResponse(l, r)
    \/ NextLog

\* A form nobody has opened stays as it is constructed.
IdleRow ==
    /\ rowDoctype = "Doc2Sys User Integration"
    /\ row = EmptyRow
    /\ rowEvent = "none"

IdleLog ==
    /\ logStatus = "success"
    /\ logButton = FALSE
    /\ logCalls = 0
    /\ logResp = NoRetryResponse
    /\ logOut = NoLogOut

IdleItem ==
    /\ itemDoc = [islocal |-> TRUE, single_file |-> "", status |-> "Uploaded",
                  text_content |-> "", unsaved |-> TRUE]
    /\ itemButtons = {}
    /\ fileAtRefresh = ""
    /\ frozen = 0
    /\ itemCalls = NoCalls
    /\ itemTimers = 0
    /\ panel = PanelInitial
    /\ itemOut = Handler("none")

\* A stored, processed Item is open.
InitStoredItem ==
    /\ InitItem
    /\ ~itemDoc.islocal
    /\ itemDoc.status = "Processed"
    /\ itemDoc.text_content = "text"

\* One form is open at a time; the others stay as constructed.
RowInit == InitRow /\ InitSettings /\ IdleLog /\ IdleItem /\ IdleWeb /\ IdleBatch

SettingsInit == IdleRow /\ InitSettings /\ IdleLog /\ IdleItem /\ IdleWeb /\ IdleBatch

ItemInit == IdleRow /\ InitSettings /\ IdleLog /\ InitItem /\ IdleWeb /\ IdleBatch

RetryInit == IdleRow /\ InitSettings /\ InitLog /\ InitStoredItem /\ IdleWeb /\ IdleBatch

WebInit == IdleRow /\ InitSettings /\ IdleLog /\ IdleItem /\ InitWeb /\ IdleBatch

BatchInit == IdleRow /\ InitSettings /\ IdleLog /\ IdleItem /\ IdleWeb /\ InitBatch

SpecRow == RowInit /\ [][NextRow]_vars

SpecSettings == SettingsInit /\ [][NextSettings]_vars

SpecItem == ItemInit /\ [][NextItem]_vars

SpecRetry == RetryInit /\ [][NextRetry]_vars

SpecWeb == WebInit /\ [][NextWeb]_vars

SpecBatch == BatchInit /\ [][NextBatch]_vars

\* Every create call completes, by its callback or by an error, and the
\* timer of the completion fires.
FairBatch ==
    /\ BatchInit
    /\ [][NextBatch]_vars
    /\ WF_vars((\E created \in BOOLEAN : CreateResponse(created)) \/ CreateError)
    /\ WF_vars(BatchCompletes)

\* The part of the Item form that freezes the UI: the Actions buttons and
\* the save, on an Item without integrations, with every doc-method call
\* completing.
NextFreeze ==
    \/ ItemRefresh
    \/ \E m \in ActionMethods : ClickAction(m)
    \/ \E m \in ActionMethods, hasMessage \in BOOLEAN : ActionResponse(m, hasMessage)
    \/ \E m \in ActionMethods : ActionError(m)
    \/ \E v \in {"", "/files/a.pdf"} : EditFile(v)
    \/ ClickUploadFile
    \/ ClickSave
    \/ SaveSucceeded
    \/ SaveFailed
    \/ \E hasMessage \in BOOLEAN : StatusResponse(hasMessage, <<>>)
    \/ StatusError

ActionCallEnds ==
    \/ \E m \in ActionMethods, hasMessage \in BOOLEAN : ActionResponse(m, hasMessage)
    \/ \E m \in ActionMethods : ActionError(m)

FairFreeze ==
    /\ ItemInit
    /\ [][NextFreeze]_vars
    /\ WF_vars(ActionCallEnds)

\* The QuickBooks connection alone, on a complete form with QuickBooks
\* selected and the credentials filled.
InitQuickBooks ==
    /\ InitWeb
    /\ webForm = [integration_type |-> "QuickBooks", has_credentials |-> TRUE,
                  complete |-> TRUE]

NextQuickBooks ==
    \/ AddTestButton
    \/ ToggleTimerFires
    \/ ClickQuickBooks
    \/ \E success \in BOOLEAN : QuickBooksResponse(success)
    \/ QuickBooksError
    \/ ClosePopup
    \/ \E w \in 1..MaxPopups : PollTick(w)

\* The interval timers keep ticking.
QuickBooksInit ==
    IdleRow /\ InitSettings /\ IdleLog /\ IdleItem /\ InitQuickBooks /\ IdleBatch

FairQuickBooks ==
    /\ QuickBooksInit
    /\ [][NextQuickBooks]_vars
    /\ WF_vars(\E w \in 1..MaxPopups : PollTick(w))

\* C1: after the integration_type change handler has run, every sensitive
\* credential field of the row (api_key, api_secret, client_id, client_secret,
\* access_token, refresh_token) is empty.
C1_SensitiveFieldsCleared ==
    rowEvent = "integration_type" => \A f \in SensitiveFields : row[f] = ""

C3_UserUniquePerRecord ==
    \A i, j \in 1..Len(settingsRecs) :
        /\ settingsRecs[i] # ""
        /\ i # j => settingsRecs[i] # settingsRecs[j]

\* C3 witness: two records exist and a save that would have duplicated or
\* emptied a user has just been rejected.
C3_Witness ==
    /\ Len(settingsRecs) = 2
    /\ saveResult = "rejected"

\* The number of results whose success flag is true.
SuccessFlags(results) == Cardinality({i \in 1..Len(results) : results[i].success})

\* The rows of the detail table are the results, one each, in the server's order.
RowsFollowResults(rows, results) ==
    /\ Len(rows) = Len(results)
    /\ \A i \in 1..Len(results) :
        /\ rows[i].language_code = results[i].language_code
        /\ rows[i].status = "Success" <=> results[i].success

LmSuccessWithResults ==
    /\ lmMethod \in LmMethods
    /\ lmResp.present /\ lmResp.success /\ lmResp.has_results

\* C10 as stated: after a successful response with a results list, for both
\* actions, the table has one row per result in order, successes + failures is
\* the number of results, successes is the number of true flags, and the
\* indicator is orange exactly when failures > 0 and green otherwise.
C10_CountsAndIndicator ==
    LmSuccessWithResults =>
        /\ RowsFollowResults(lmOut.dialog.rows, lmResp.results)
        /\ lmOut.alert.successes + lmOut.alert.failures = Len(lmResp.results)
        /\ lmOut.alert.successes = SuccessFlags(lmResp.results)
        /\ lmOut.alert.indicator =
              IF lmOut.alert.failures > 0 THEN "orange" ELSE "green"

\* C10 amended: the same, except that Delete Unused Models with an empty
\* results list shows the blue 'No unused language models to delete' alert
\* and reports no counts; a detail table is shown only for a non-empty list
\* and carries the alert's indicator.
C10_CountsAndIndicatorAmended ==
    LmSuccessWithResults =>
        IF lmMethod = "delete_not_enabled_language_models" /\ Len(lmResp.results) = 0
        THEN /\ lmOut.alert.text = "No unused language models to delete"
             /\ lmOut.alert.indicator = "blue"
             /\ ~lmOut.dialog.shown
        ELSE /\ lmOut.dialog.shown <=> Len(lmResp.results) > 0
             /\ RowsFollowResults(lmOut.dialog.rows, lmResp.results)
             /\ lmOut.alert.successes + lmOut.alert.failures = Len(lmResp.results)
             /\ lmOut.alert.successes = SuccessFlags(lmResp.results)
             /\ lmOut.alert.indicator =
                   IF lmOut.alert.failures > 0 THEN "orange" ELSE "green"
             /\ lmOut.dialog.shown => lmOut.dialog.indicator = lmOut.alert.indicator

\* C10 witness: Delete Unused Models answered with two results, one of them
\* failed, and the orange table is on screen.
C10_Witness ==
    /\ lmMethod = "delete_not_enabled_language_models"
    /\ LmSuccessWithResults
    /\ Len(lmResp.results) = 2
    /\ lmOut.alert.failures = 1
    /\ lmOut.dialog.shown

\* C5: every doc-method call of the Item form that ends in failure, through
\* the error callback or through a response with an empty message, shows a
\* red alert.
C5_FailureShowsRedAlert ==
    itemOut.handler \in {"error", "callback_empty"} => itemOut.alert = "red"

\* C5, as the form behaves: a failed doc-method call takes one freeze off
\* and does nothing else: the handler shows no alert, the buttons and the
\* status panel stay as they are and no call is issued.
C5_FailureOnlyUnfreezes ==
    /\ [](itemOut.handler \in {"error", "callback_empty"} => itemOut.alert = "none")
    /\ [][(itemOut'.handler \in {"error", "callback_empty"}
           /\ Outstanding(itemCalls') < Outstanding(itemCalls)) =>
                /\ frozen' = IF frozen = 0 THEN 0 ELSE frozen - 1
                /\ Outstanding(itemCalls') = Outstanding(itemCalls) - 1
                /\ UNCHANGED <<itemButtons, fileAtRefresh, panel, itemTimers>>]_vars

\* A doc-method call has failed with the UI unfrozen again and nothing
\* shown.
C5_Witness ==
    /\ itemOut.handler = "error"
    /\ itemOut.alert = "none"
    /\ frozen = 0
    /\ Outstanding(itemCalls) = 0
    /\ itemButtons # {}

\* C6: every response to retry_integration on the log form other than one
\* with status 'success' produces a red alert carrying the server's message,
\* or 'Unknown error' when there is none, and the handler does not throw.
C6_FailureShowsRedAlert ==
    (logOut.ran /\ ~(logResp.present /\ logResp.status = "success")) =>
        /\ ~logOut.threw
        /\ logOut.indicator = "red"
        /\ logOut.text = (IF logResp.present /\ logResp.message # ""
                          THEN logResp.message ELSE "Unknown error")

\* C7: the log form carries 'Retry Integration' exactly when the log's
\* status is 'error'; an item of the status panel has a Retry button exactly
\* when its entry has status 'error' and a log_name; a retry chain starts
\* only from a click on the Retry button of an entry rendered as failed, with
\* that entry's log_name, a retry_integration call only continues such a
\* chain, and the log form issues its call only from its button.
C7_RetryOnlyForFailed ==
    /\ [](/\ logButton <=> logStatus = "error"
          /\ Len(panel.items) = Len(panel.statuses)
          /\ \A i \in DOMAIN panel.items :
                /\ panel.items[i].retry <=>
                        (panel.statuses[i].status = "error"
                         /\ panel.statuses[i].log_name # "")
                /\ panel.items[i].retry =>
                        panel.items[i].data_log = panel.statuses[i].log_name)
    /\ [][/\ \A l \in LogNames :
                /\ itemCalls'[<<"frappe.client.get", l>>]
                        > itemCalls[<<"frappe.client.get", l>>] =>
                        /\ itemOut'.handler = "retry_click"
                        /\ \E i \in DOMAIN panel.statuses :
                                panel.statuses[i] = Entry("error", l)
                /\ itemCalls'[<<"retry_integration", l>>]
                        > itemCalls[<<"retry_integration", l>>] =>
                        /\ itemOut'.handler = "get_callback"
                        /\ itemCalls[<<"frappe.client.get", l>>] > 0
          /\ logCalls' > logCalls => logButton /\ logStatus = "error"]_vars

\* The panel shows a succeeded and a failed entry, and the retry of the
\* failed one is on its way.
C7_Witness ==
    /\ panel.statuses = <<Entry("success", "LOG-1"), Entry("error", "LOG-2")>>
    /\ itemCalls[<<"retry_integration", "LOG-2">>] = 1
    /\ logButton

\* C4: on the web form, while a call issued by the Test Integration or the
\* Connect to QuickBooks button is outstanding, the button is disabled and
\* shows its spinner label (so no second call is issued), and the success or
\* error callback that ends the call leaves the button enabled with its
\* original label.
C4_ButtonDisabledWhileCallOutstanding ==
    /\ testCalls <= 1
    /\ qbCalls <= 1
    /\ testCalls > 0 => testBtn = Button(TRUE, "Testing...")
    /\ qbCalls > 0 => qbBtn = Button(TRUE, "Connecting...")
    /\ webEvent \in {"test_callback", "test_error"} =>
            testBtn = Button(FALSE, "Test Integration")
    /\ webEvent \in {"qb_callback_success", "qb_callback_failure", "qb_error"} =>
            qbBtn = Button(FALSE, "Connect to QuickBooks")

\* A test call has just finished through its error callback, while an
\* auth-URL call is still outstanding.
C4_Witness ==
    /\ webEvent = "test_error"
    /\ testCalls = 0
    /\ ~testBtn.disabled
    /\ qbCalls = 1
    /\ qbBtn.disabled

C9_ResultBoxColours ==
    /\ ~({"alert-success", "alert-danger"} \subseteq testBox.classes)
    /\ testCalls > 0 => ~testBox.visible
    /\ (webEvent = "test_callback" /\ testResp.present) =>
            /\ testBox.visible
            /\ testResp.status = "success" => "alert-success" \in testBox.classes
            /\ testResp.status # "success" => "alert-danger" \in testBox.classes
    /\ webEvent = "test_error" =>
            testBox.visible /\ "alert-danger" \in testBox.classes

\* A failure response has just been shown in red.
C9_Witness ==
    /\ webEvent = "test_callback"
    /\ testResp.present
    /\ testResp.status = "error"
    /\ testBox = Box(TRUE, {"alert-danger"})

\* C11: render_integration_status gives every status entry exactly one
\* display state: 'success' green/'Success', 'error' red/'Failed', 'warning'
\* orange/'Warning', anything else (a missing status too) gray/'Pending';
\* an empty list renders the 'No integrations have been processed' text
\* alone, with no entry and no Retry button.
C11_StatusDisplay ==
    /\ panel.state = "none_processed" => panel.statuses = <<>> /\ panel.items = <<>>
    /\ panel.state = "rendered" =>
        /\ Len(panel.statuses) > 0
        /\ Len(panel.items) = Len(panel.statuses)
        /\ \A i \in DOMAIN panel.items :
            LET st == panel.statuses[i].status
                shown == <<panel.items[i].indicator_class, panel.items[i].status_text>>
            IN  /\ st = "success" => shown = <<"green", "Success">>
                /\ st = "error" => shown = <<"red", "Failed">>
                /\ st = "warning" => shown = <<"orange", "Warning">>
                /\ st \notin {"success", "error", "warning"} =>
                        shown = <<"gray", "Pending">>

\* The panel shows an entry without a status and one with an unknown status.
C11_Witness ==
    /\ panel.state = "rendered"
    /\ panel.statuses = <<Entry("", ""), Entry("queued", "LOG-2")>>
    /\ panel.items[1].status_text = "Pending"

\* C12: a batch is processed one file at a time: the create calls are issued
\* for the files in list order, each file at most once, the call for the next
\* file only after the callback of the one before, so at most one call is
\* outstanding; the counter 'processed' equals the number of callbacks that
\* have run and the index process_next_file is at, and never exceeds the
\* number of files.
C12_OneFileAtATime ==
    /\ batchCalls <= 1
    /\ Len(batchIssued) <= Len(file_docs)
    /\ \A i \in DOMAIN batchIssued : batchIssued[i] = file_docs[i]
    /\ Len(batchIssued) <= batchCallbacks + 1
    /\ batchCalls = 1 => Len(batchIssued) = batchCallbacks + 1
    /\ processed = batchCallbacks
    /\ processed = batchIndex
    /\ processed <= Len(file_docs)

\* The call for the last of three files is outstanding, two callbacks have
\* run.
C12_Witness ==
    /\ Len(file_docs) = 3
    /\ batchIssued = file_docs
    /\ batchCalls = 1
    /\ processed = 2

\* C13: a batch whose create calls all complete, by success or by failure,
\* finishes: once the progress dialog is shown it is eventually hidden, with
\* the completion alert shown and the list refreshed.
C13_BatchFinishes ==
    batchDialog ~> (~batchDialog /\ batchDone.shown /\ batchDone.refreshed # "none")

\* C14: the N of 'Created N documents successfully' is the number of files
\* of the batch for which the server created an Item.
C14_AnnouncedEqualsCreated ==
    batchDone.shown => batchDone.created = batchCreated

\* C15: a freeze started by an Actions button is taken off when its call
\* finishes, by the callback and by the error handler alike: while a
\* doc-method call is outstanding with the UI frozen, the UI is eventually
\* unfrozen; the handler that ends the call calls unfreeze first, before the
\* success alert and the refresh; and the UI is not frozen after it.
C15_FreezeEndsWithCall ==
    /\ [](itemOut.handler \in {"callback", "callback_empty", "error"} =>
            /\ frozen = 0
            /\ itemOut.order # <<>>
            /\ itemOut.order[1] = "unfreeze")
    /\ [](itemOut.handler = "callback" =>
            itemOut.order = <<"unfreeze", "show_alert", "refresh">>)
    /\ [][\A m \in ActionMethods :
            itemCalls'[<<m, "">>] > itemCalls[<<m, "">>] => frozen' = frozen + 1]_vars
    /\ (frozen > 0 /\ \E m \in ActionMethods : itemCalls[<<m, "">>] > 0) ~> (frozen = 0)

\* Process All Steps has failed and the UI is unfrozen.
C15_Witness ==
    /\ itemOut.handler = "error"
    /\ frozen = 0
    /\ itemCalls[<<"process_all", "">>] = 0
    /\ Outstanding(itemCalls) = 0
    /\ fileAtRefresh # ""

\* C16: before_save freezes the UI exactly when a file is attached and the
\* document is unsaved or has no text_content, and once a save attempt has
\* ended, by after_save or by a rejected or failed save, the UI is not
\* frozen.
C16_SaveLeavesUnfrozen ==
    itemOut.handler \in {"after_save", "save_failed"} => frozen = 0

\* C17: right after every refresh of the Doc2Sys Item form (the refresh event
\* itself, the frm.refresh() of an action callback, the reload after a save)
\* the 'Upload File' button is present exactly when the document is not new
\* and single_file is empty, and each processing action button is present
\* exactly when single_file is non-empty; so the two are never present
\* together, and a new document without a file has neither.
AfterRefresh == itemOut.handler \in {"refresh", "callback", "after_save"}

C17_UploadOrActions ==
    /\ AfterRefresh =>
          /\ "Upload File" \in itemButtons
                <=> (~itemDoc.islocal /\ itemDoc.single_file = "")
          /\ \A label \in ActionButtons :
                label \in itemButtons <=> itemDoc.single_file # ""
          /\ (itemDoc.islocal /\ itemDoc.single_file = "")
                => itemButtons \cap ({"Upload File"} \cup ActionButtons) = {}
    /\ ~("Upload File" \in itemButtons /\ itemButtons \cap ActionButtons # {})

C17_Witness ==
    /\ itemOut.handler = "after_save"
    /\ "Upload File" \in itemButtons
    /\ itemButtons \cap ActionButtons = {}
    /\ ~itemDoc.islocal

\* C18: refreshing the integration status never triggers integrations. A
\* click on 'Refresh Status' and a run of update_integration_status (from
\* the refresh event or from a timer) issue no call but
\* get_integration_status, one per run; and for an unsaved document
\* update_integration_status issues no call at all and leaves the status
\* panel as it was.
C18_StatusOnlyReadsStatus ==
    [][/\ itemOut'.handler \in {"refresh", "refresh_status", "timer"}
          => /\ \A c \in ItemCallKinds \ {GIS} : itemCalls'[c] = itemCalls[c]
             /\ itemCalls'[GIS] = itemCalls[GIS] + (IF itemDoc'.islocal THEN 0 ELSE 1)
             /\ ~itemDoc'.islocal => panel' = PanelLoading
       /\ (itemOut'.handler \in {"refresh", "refresh_status", "timer"} /\ itemDoc'.islocal)
          => /\ itemCalls' = itemCalls
             /\ panel' = panel]_vars

C18_Witness ==
    /\ itemOut.handler = "refresh_status"
    /\ panel = PanelLoading
    /\ itemCalls[GIS] > 0
    /\ itemCalls[TRIGGER] > 0

\* C19: a click on 'Trigger Integrations' only issues the trigger call: it
\* reads no status and schedules nothing. The delayed status refresh is
\* scheduled by the callback of that call, one refresh per callback and so
\* at most one per click, together with the green 'Integrations triggered'
\* alert; the status is then re-read when the timer runs. A trigger call
\* that fails shows no alert and schedules no refresh.
C19_RefreshOnlyFromCallback ==
    [][/\ itemOut'.handler = "trigger_click"
          => /\ itemCalls' = AddCall(itemCalls, TRIGGER)
             /\ itemTimers' = itemTimers
             /\ panel' = panel
       /\ itemTimers' > itemTimers
          => /\ itemOut' = HandlerAlert("trigger_callback", "green",
                                        "Integrations triggered")
             /\ itemTimers' = itemTimers + 1
             /\ itemCalls[TRIGGER] > 0
             /\ itemCalls' = DropCall(itemCalls, TRIGGER)
       /\ itemOut'.handler = "trigger_callback" => itemTimers' = itemTimers + 1
       /\ itemOut'.handler = "trigger_error"
          => /\ itemOut'.alert = "none"
             /\ itemTimers' = itemTimers
             /\ itemCalls' = DropCall(itemCalls, TRIGGER)
             /\ panel' = panel
       /\ itemOut'.handler = "timer"
          => /\ itemTimers > 0
             /\ itemTimers' = itemTimers - 1
             /\ itemCalls' = AddCall(itemCalls, GIS)]_vars

C19_Witness ==
    /\ itemOut.handler = "timer"
    /\ itemTimers = 0
    /\ panel = PanelLoading
    /\ itemCalls[GIS] > 0

\* C20: the retry from the Item's status panel is a chain of two calls.
\* frappe.client.get is issued by a click on a Retry button, for the log
\* that button names; retry_integration is issued only by the callback of
\* frappe.client.get when it carries the record, and for the same log_name;
\* a status refresh is scheduled only by a retry callback whose response has
\* status 'success'; every other retry response, one without a message
\* included, shows a red alert (the server's message, else 'Failed to retry
\* integration') and schedules nothing. The retry callback itself never
\* touches the panel.
C20_RetryChain ==
    /\ [](itemOut.handler = "retry_callback" =>
            IF itemOut.resp.present /\ itemOut.resp.status = "success"
            THEN /\ itemOut.alert = "green"
                 /\ itemOut.text = "Integration retried successfully"
            ELSE /\ itemOut.alert = "red"
                 /\ itemOut.text =
                        (IF itemOut.resp.present /\ itemOut.resp.message # ""
                         THEN itemOut.resp.message
                         ELSE "Failed to retry integration"))
    /\ [][/\ \A l \in LogNames :
                /\ itemCalls'[<<"frappe.client.get", l>>]
                        > itemCalls[<<"frappe.client.get", l>>] =>
                        /\ itemOut'.handler = "retry_click"
                        /\ \E i \in DOMAIN panel.items :
                                panel.items[i].retry /\ panel.items[i].data_log = l
                        /\ itemCalls' = AddCall(itemCalls, <<"frappe.client.get", l>>)
                /\ itemCalls'[<<"retry_integration", l>>]
                        > itemCalls[<<"retry_integration", l>>] =>
                        /\ itemOut'.handler = "get_callback"
                        /\ itemCalls[<<"frappe.client.get", l>>] > 0
                        /\ itemCalls' =
                              AddCall(DropCall(itemCalls, <<"frappe.client.get", l>>),
                                      <<"retry_integration", l>>)
          /\ itemTimers' > itemTimers =>
                /\ itemOut'.handler = "retry_callback"
                /\ itemOut'.resp.present /\ itemOut'.resp.status = "success"
                /\ itemTimers' = itemTimers + 1
                /\ \E l \in LogNames :
                      /\ itemCalls[<<"retry_integration", l>>] > 0
                      /\ itemCalls' = DropCall(itemCalls, <<"retry_integration", l>>)
          /\ (itemOut'.handler = "retry_callback" /\ itemOut' # itemOut) =>
                /\ panel' = panel
                /\ itemTimers' = itemTimers
                        + (IF itemOut'.resp.present /\ itemOut'.resp.status = "success"
                           THEN 1 ELSE 0)
          /\ itemOut'.handler \in {"get_callback_empty", "retry_error"} =>
                /\ itemTimers' = itemTimers
                /\ \A l \in LogNames : itemCalls'[<<"retry_integration", l>>]
                                        <= itemCalls[<<"retry_integration", l>>]]_vars

\* A retry response without a message has just been answered with the red
\* fallback alert, and nothing is scheduled.
C20_Witness ==
    /\ itemOut.handler = "retry_callback"
    /\ ~itemOut.resp.present
    /\ itemOut.alert = "red"
    /\ itemOut.text = "Failed to retry integration"
    /\ itemTimers = 0

====
